---- MODULE Spec2Model ----
(***************************************************************************)
(* Model of the gzip member header decoder, Member::from_reader            *)
(* (src/src/lib.rs).  The decoder pulls bytes one at a time from a         *)
(* sequential reader; every read either delivers the next byte of the      *)
(* source or fails (end of stream, I/O fault).  The decoder's locals, the  *)
(* bytes it has consumed so far and its result are the state.              *)
(***************************************************************************)
EXTENDS Integers, Sequences, FiniteSets, TLC

VARIABLES
    m,       \* the decoder: from_reader's locals, cursor and outcome
    m2,      \* a second decoder on a second source (used when paired)
    cls,     \* the class of sources explored
    paired,  \* whether the second decoder runs
    ended    \* whether the reader has reported a failed read

vars == <<m, m2, cls, paired, ended>>

(***************************************************************************)
(* Bounds of the explored inputs.                                          *)
(***************************************************************************)
\* most bytes a string field (name, comment) holds before its terminator
MaxStr == 3
\* most extra-field data bytes the source delivers before it ends
MaxData == 2

(***************************************************************************)
(* Program constants.                                                      *)
(***************************************************************************)
MAGIC1 == 31
MAGIC2 == 139

Text == 1
HCrc == 2
Extra == 4
Name == 8
Comment == 16

\* char::REPLACEMENT_CHARACTER, pushed by String::from_utf8_lossy
REPLACEMENT == 65533

Byte == 0..255

None == <<>>
Some(x) == <<x>>

(***************************************************************************)
(* Bit operations on u8.                                                   *)
(***************************************************************************)
RECURSIVE BitAndN(_, _, _)
BitAndN(a, b, n) ==
    IF n = 0 THEN 0
    ELSE ((a % 2) * (b % 2)) + 2 * BitAndN(a \div 2, b \div 2, n - 1)

BitAnd(a, b) == BitAndN(a, b, 8)

\* variant of FlagsFrom: Flags::from_bits_truncate, dropping the unnamed bits
FlagsFromTruncate(b) == BitAnd(b, Text + HCrc + Extra + Name + Comment)

\* Flags::from(u8): the bitmask wraps the byte, all 8 bits kept
FlagsFrom(b) == b

\* Flags::contains
Contains(f, flag) == BitAnd(f, flag) = flag

(***************************************************************************)
(* The numeric enums, #[derive(FromPrimitive)] with a #[default] variant.  *)
(***************************************************************************)
MethodNames ==
    <<"Reserved0", "Reserved1", "Reserved2", "Reserved3", "Reserved4",
      "Reserved5", "Reserved6", "Reserved7", "Deflate">>

OsNames ==
    <<"Fat", "Amiga", "Vms", "Unix", "VmCms", "Atari", "Hpfs", "Macintosh",
      "ZSystem", "CPM", "Top20", "Ntfs", "QDos", "AcornRiscOS">>

\* variant of CompressionMethodFrom: an unknown code takes the nearest known
\* variant instead of the #[default] one
NearestMethodFrom(b) ==
    IF b < Len(MethodNames) THEN MethodNames[b + 1]
    ELSE MethodNames[Len(MethodNames)]

CompressionMethodFrom(b) ==
    IF b < Len(MethodNames) THEN MethodNames[b + 1] ELSE "Unknown"

OperatingSystemFrom(b) ==
    IF b < Len(OsNames) THEN OsNames[b + 1] ELSE "Unknown"

(***************************************************************************)
(* byteorder: LittleEndian::read_u32 / read_u16 of a filled buffer.        *)
(* TLC's integers are signed 32-bit, so a u32 is held as its two 16-bit    *)
(* limbs: the value is lo + 65536 * hi.                                    *)
(***************************************************************************)
U32(hi, lo) == [hi |-> hi, lo |-> lo]

\* variant of LittleEndianU32: read_u32::<BigEndian>
BigEndianU32(buf) == U32(buf[2] + 256 * buf[1], buf[4] + 256 * buf[3])

LittleEndianU32(buf) == U32(buf[3] + 256 * buf[4], buf[1] + 256 * buf[2])

LittleEndianU16(buf) == buf[1] + 256 * buf[2]

(***************************************************************************)
(* String::from_utf8_lossy: the string as its sequence of code points.     *)
(* Every maximal invalid part becomes one REPLACEMENT character.           *)
(***************************************************************************)
Utf8CharWidth(b) ==
    IF b < 128 THEN 1
    ELSE IF b >= 194 /\ b <= 223 THEN 2
    ELSE IF b >= 224 /\ b <= 239 THEN 3
    ELSE IF b >= 240 /\ b <= 244 THEN 4
    ELSE 0

SafeGet(s, i) == IF i <= Len(s) THEN s[i] ELSE 0

IsCont(b) == b >= 128 /\ b <= 191

\* the second byte of a 3- or 4-byte sequence, by its first byte
SecondOk(b, c) ==
    IF b = 224 THEN c >= 160 /\ c <= 191
    ELSE IF b = 237 THEN c >= 128 /\ c <= 159
    ELSE IF b = 240 THEN c >= 144 /\ c <= 191
    ELSE IF b = 244 THEN c >= 128 /\ c <= 143
    ELSE IsCont(c)

\* one step of Utf8Chunks at index p: [ok, next, cp]
CharAt(s, p) ==
    LET b == s[p]
        w == Utf8CharWidth(b)
        c1 == SafeGet(s, p + 1)
        c2 == SafeGet(s, p + 2)
        c3 == SafeGet(s, p + 3)
    IN  IF w = 1 THEN [ok |-> TRUE, next |-> p + 1, cp |-> b]
        ELSE IF w = 2 THEN
            IF IsCont(c1)
            THEN [ok |-> TRUE, next |-> p + 2, cp |-> (b - 192) * 64 + (c1 - 128)]
            ELSE [ok |-> FALSE, next |-> p + 1, cp |-> REPLACEMENT]
        ELSE IF w = 3 THEN
            IF ~SecondOk(b, c1)
            THEN [ok |-> FALSE, next |-> p + 1, cp |-> REPLACEMENT]
            ELSE IF ~IsCont(c2)
            THEN [ok |-> FALSE, next |-> p + 2, cp |-> REPLACEMENT]
            ELSE [ok |-> TRUE, next |-> p + 3,
                  cp |-> (b - 224) * 4096 + (c1 - 128) * 64 + (c2 - 128)]
        ELSE IF w = 4 THEN
            IF ~SecondOk(b, c1)
            THEN [ok |-> FALSE, next |-> p + 1, cp |-> REPLACEMENT]
            ELSE IF ~IsCont(c2)
            THEN [ok |-> FALSE, next |-> p + 2, cp |-> REPLACEMENT]
            ELSE IF ~IsCont(c3)
            THEN [ok |-> FALSE, next |-> p + 3, cp |-> REPLACEMENT]
            ELSE [ok |-> TRUE, next |-> p + 4,
                  cp |-> (b - 240) * 262144 + (c1 - 128) * 4096
                         + (c2 - 128) * 64 + (c3 - 128)]
        ELSE [ok |-> FALSE, next |-> p + 1, cp |-> REPLACEMENT]

RECURSIVE LossyFrom(_, _)
LossyFrom(s, p) ==
    IF p > Len(s) THEN <<>>
    ELSE LET c == CharAt(s, p) IN <<c.cp>> \o LossyFrom(s, c.next)

FromUtf8Lossy(buf) == LossyFrom(buf, 1)

(***************************************************************************)
(* The decoder: the locals of from_reader, the bytes taken from the reader *)
(* (consumed) with the read that took each (labels), and the outcome.      *)
(***************************************************************************)
Start ==
    [pc |-> "magic1", consumed |-> <<>>, labels |-> <<>>,
     magic1 |-> -1, magic2 |-> -1, compression_method |-> "", flags |-> -1,
     mtime_buf |-> <<>>, modification_time |-> U32(-1, -1), extra_flags |-> -1,
     operating_system |-> "",
     subid1 |-> -1, subid2 |-> -1, length_buf |-> <<>>, length |-> -1,
     data |-> <<>>, extra_fields |-> None,
     name_buf |-> <<>>, original_file_name |-> None,
     comment_buf |-> <<>>, comment |-> None,
     crc_buf |-> <<>>, crc16 |-> None,
     result |-> "none", err |-> None, member |-> None]

\* a successful read_u8 (one byte of a read_exact): the cursor moves by one
Take(d, b) ==
    [d EXCEPT !.consumed = Append(@, b), !.labels = Append(@, d.pc)]

\* variant of Fail: a failed read inside the file name loop ends the string
\* as a terminator would
FailEndsString(d) ==
    IF d.pc = "name"
    THEN [d EXCEPT !.pc = "done", !.result = "Ok",
                   !.original_file_name = Some(FromUtf8Lossy(d.name_buf)),
                   !.member = Some([magic1 |-> d.magic1, magic2 |-> d.magic2])]
    ELSE [d EXCEPT !.pc = "done", !.result = "Io", !.err = Some(<<"Io">>)]

\* a failed read: `?` returns Err(Error::Io(..)) through From<io::Error>
Fail(d) ==
    [d EXCEPT !.pc = "done", !.result = "Io", !.err = Some(<<"Io">>)]

\* Ok(Member { .. }), lines 172-191
Finish(d) ==
    [d EXCEPT !.pc = "done", !.result = "Ok",
              !.member = Some(
                  [magic1 |-> d.magic1, magic2 |-> d.magic2,
                   compression_method |-> d.compression_method,
                   flags |-> d.flags,
                   modification_time |-> d.modification_time,
                   extra_flags |-> d.extra_flags,
                   operating_system |-> d.operating_system,
                   extra_fields |-> d.extra_fields,
                   original_file_name |-> d.original_file_name,
                   comment |-> d.comment,
                   crc16 |-> d.crc16,
                   data |-> <<>>, crc32 |-> 0, size |-> 0])]

\* the four `if flags.contains(..)` blocks, in the order of the code
EnterCrc(d) ==
    IF Contains(d.flags, HCrc)
    THEN [d EXCEPT !.pc = "crc16"]
    ELSE Finish([d EXCEPT !.crc16 = None])

EnterComment(d) ==
    IF Contains(d.flags, Comment)
    THEN [d EXCEPT !.pc = "comment", !.comment_buf = <<>>]
    ELSE EnterCrc([d EXCEPT !.comment = None])

\* variant of EnterName: the file name block tests the Comment bit
EnterNameOnComment(d) ==
    IF Contains(d.flags, Comment)
    THEN [d EXCEPT !.pc = "name", !.name_buf = <<>>]
    ELSE EnterComment([d EXCEPT !.original_file_name = None])

EnterName(d) ==
    IF Contains(d.flags, Name)
    THEN [d EXCEPT !.pc = "name", !.name_buf = <<>>]
    ELSE EnterComment([d EXCEPT !.original_file_name = None])

\* variant of EnterExtra: the checksum block, whose bit is the lowest, comes
\* first
EnterExtraCrcFirst(d) ==
    IF Contains(d.flags, HCrc)
    THEN [d EXCEPT !.pc = "crc16"]
    ELSE IF Contains(d.flags, Extra)
    THEN [d EXCEPT !.pc = "subid1"]
    ELSE EnterName([d EXCEPT !.extra_fields = None])

EnterExtra(d) ==
    IF Contains(d.flags, Extra)
    THEN [d EXCEPT !.pc = "subid1"]
    ELSE EnterName([d EXCEPT !.extra_fields = None])

\* Some(Extra { subid1, subid2, length, data }), lines 126-131
ExtraDone(d) ==
    EnterName([d EXCEPT !.extra_fields =
        Some([subid1 |-> d.subid1, subid2 |-> d.subid2,
              length |-> d.length, data |-> d.data])])

(***************************************************************************)
(* The reads of from_reader, one operator per read, each applied to the    *)
(* byte the reader delivered.                                              *)
(***************************************************************************)
DoMagic1(d, b) ==
    LET t == [Take(d, b) EXCEPT !.magic1 = b]
    IN  IF b # MAGIC1
        THEN [t EXCEPT !.pc = "done", !.result = "Format",
                       !.err = Some(<<"InvalidMagic1", b>>)]
        ELSE [t EXCEPT !.pc = "magic2"]

\* variant of DoMagic2: the second mismatch is reported as the first
DoMagic2AsMagic1(d, b) ==
    LET t == [Take(d, b) EXCEPT !.magic2 = b]
    IN  IF b # MAGIC2
        THEN [t EXCEPT !.pc = "done", !.result = "Format",
                       !.err = Some(<<"InvalidMagic1", b>>)]
        ELSE [t EXCEPT !.pc = "method"]

DoMagic2(d, b) ==
    LET t == [Take(d, b) EXCEPT !.magic2 = b]
    IN  IF b # MAGIC2
        THEN [t EXCEPT !.pc = "done", !.result = "Format",
                       !.err = Some(<<"InvalidMagic2", b>>)]
        ELSE [t EXCEPT !.pc = "method"]

DoMethod(d, b) ==
    [Take(d, b) EXCEPT !.compression_method = CompressionMethodFrom(b),
                       !.pc = "flags"]

DoFlags(d, b) ==
    [Take(d, b) EXCEPT !.flags = FlagsFrom(b), !.pc = "mtime"]

\* read_u32::<LittleEndian>: read_exact of 4 bytes, then the conversion
DoMtime(d, b) ==
    LET t == [Take(d, b) EXCEPT !.mtime_buf = Append(@, b)]
    IN  IF Len(t.mtime_buf) < 4 THEN t
        ELSE [t EXCEPT !.modification_time = LittleEndianU32(t.mtime_buf),
                       !.pc = "extra_flags"]

DoExtraFlags(d, b) ==
    [Take(d, b) EXCEPT !.extra_flags = b, !.pc = "os"]

DoOs(d, b) ==
    EnterExtra([Take(d, b) EXCEPT !.operating_system = OperatingSystemFrom(b)])

DoSubid1(d, b) == [Take(d, b) EXCEPT !.subid1 = b, !.pc = "subid2"]

DoSubid2(d, b) == [Take(d, b) EXCEPT !.subid2 = b, !.pc = "length"]

\* variant of DoLength: read_to_vec's loop body runs once before its bound is
\* tested
DoLengthReadsOnce(d, b) ==
    LET t == [Take(d, b) EXCEPT !.length_buf = Append(@, b)]
    IN  IF Len(t.length_buf) < 2 THEN t
        ELSE [t EXCEPT !.length = LittleEndianU16(t.length_buf),
                       !.data = <<>>, !.pc = "data"]

\* read_u16::<LittleEndian>, then read_to_vec, whose loop runs `length` times
DoLength(d, b) ==
    LET t == [Take(d, b) EXCEPT !.length_buf = Append(@, b)]
    IN  IF Len(t.length_buf) < 2 THEN t
        ELSE LET u == [t EXCEPT !.length = LittleEndianU16(t.length_buf),
                                !.data = <<>>]
             IN  IF u.length = 0 THEN ExtraDone(u)
                 ELSE [u EXCEPT !.pc = "data"]

\* variant of DoData: read_to_vec's loop runs over 0..=length
DoDataInclusive(d, b) ==
    LET t == [Take(d, b) EXCEPT !.data = Append(@, b)]
    IN  IF Len(t.data) <= t.length THEN t ELSE ExtraDone(t)

\* one iteration of read_to_vec's loop
DoData(d, b) ==
    LET t == [Take(d, b) EXCEPT !.data = Append(@, b)]
    IN  IF Len(t.data) < t.length THEN t ELSE ExtraDone(t)

\* variant of DoName: the byte is pushed before it is tested for zero
DoNameKeepsZero(d, b) ==
    LET t == [Take(d, b) EXCEPT !.name_buf = Append(@, b)]
    IN  IF b = 0
        THEN EnterComment([t EXCEPT !.original_file_name =
                              Some(FromUtf8Lossy(t.name_buf))])
        ELSE t

\* one iteration of the file name loop
DoName(d, b) ==
    LET t == Take(d, b)
    IN  IF b = 0
        THEN EnterComment([t EXCEPT !.original_file_name =
                              Some(FromUtf8Lossy(t.name_buf))])
        ELSE [t EXCEPT !.name_buf = Append(@, b)]

\* one iteration of the comment loop
DoComment(d, b) ==
    LET t == Take(d, b)
    IN  IF b = 0
        THEN EnterCrc([t EXCEPT !.comment = Some(FromUtf8Lossy(t.comment_buf))])
        ELSE [t EXCEPT !.comment_buf = Append(@, b)]

\* read_u16::<LittleEndian> of the header checksum
DoCrc16(d, b) ==
    LET t == [Take(d, b) EXCEPT !.crc_buf = Append(@, b)]
    IN  IF Len(t.crc_buf) < 2 THEN t
        ELSE Finish([t EXCEPT !.crc16 = Some(LittleEndianU16(t.crc_buf))])

\* from_reader applied to the next byte, whatever read it is at
StepAny(d, b) ==
    CASE d.pc = "magic1" -> DoMagic1(d, b)
      [] d.pc = "magic2" -> DoMagic2(d, b)
      [] d.pc = "method" -> DoMethod(d, b)
      [] d.pc = "flags" -> DoFlags(d, b)
      [] d.pc = "mtime" -> DoMtime(d, b)
      [] d.pc = "extra_flags" -> DoExtraFlags(d, b)
      [] d.pc = "os" -> DoOs(d, b)
      [] d.pc = "subid1" -> DoSubid1(d, b)
      [] d.pc = "subid2" -> DoSubid2(d, b)
      [] d.pc = "length" -> DoLength(d, b)
      [] d.pc = "data" -> DoData(d, b)
      [] d.pc = "name" -> DoName(d, b)
      [] d.pc = "comment" -> DoComment(d, b)
      [] d.pc = "crc16" -> DoCrc16(d, b)
      [] OTHER -> d

(***************************************************************************)
(* The sources explored.  A class of sources fixes which bytes the reader  *)
(* may deliver at each read:                                               *)
(*   header   the ten fixed bytes vary, the optional fields are minimal    *)
(*   flags    every flags byte 0..255, short optional fields               *)
(*   options  a plain fixed part, the optional fields vary                 *)
(*   example  the fourteen bytes of the "foo" header and their neighbours  *)
(*   codes    every method byte 0..255, and every operating-system byte    *)
(*            0..255 after the method byte 8                               *)
(***************************************************************************)
Classes == {"header", "flags", "options", "example", "codes"}

OptionBits == {0, 2, 4, 6, 8, 10, 12, 14, 16, 18, 20, 22, 24, 26, 28, 30}

MtimeBytes(c, i) ==
    IF c = "header"
    THEN CASE i = 1 -> {0, 120}
           [] i = 2 -> {0, 86}
           [] i = 3 -> {52}
           [] OTHER -> {0, 18, 255}
    ELSE {0}

StringBytes(c, field) ==
    CASE c \in {"header", "codes"} -> {0}
      [] c = "flags" -> {0, 102}
      [] c = "example" -> {0, 102, 111}
      [] OTHER -> IF field = "name" THEN {0, 102, 195, 169} ELSE {0, 169}

\* the bytes the reader may deliver to decoder d at its next read
Source(c, d) ==
    CASE d.pc = "magic1" -> IF c = "header" THEN {MAGIC1, MAGIC2, 0} ELSE {MAGIC1}
      [] d.pc = "magic2" -> IF c = "header" THEN {MAGIC2, MAGIC1, 0} ELSE {MAGIC2}
      [] d.pc = "method" ->
            CASE c = "header" -> {0, 7, 8, 9, 255}
              [] c = "codes" -> Byte
              [] OTHER -> {8}
      [] d.pc = "flags" ->
            CASE c = "header" -> {0, 225, 30, 255}
              [] c = "flags" -> Byte
              [] c = "example" -> {Name}
              [] c = "codes" -> {0, 30}
              [] OTHER -> OptionBits
      [] d.pc = "mtime" -> MtimeBytes(c, Len(d.mtime_buf) + 1)
      [] d.pc = "extra_flags" -> IF c = "header" THEN {0, 2, 4} ELSE {0}
      [] d.pc = "os" ->
            CASE c = "header" -> {0, 3, 13, 14, 32, 255}
              [] c = "codes" -> IF d.consumed[3] = 8 THEN Byte ELSE {3, 32}
              [] OTHER -> {3}
      [] d.pc = "subid1" -> {65}
      [] d.pc = "subid2" -> {80}
      [] d.pc = "length" ->
            IF Len(d.length_buf) = 0
            THEN (IF c = "options" THEN {0, 1, 2, 3} ELSE {1})
            ELSE (IF c = "options" THEN {0, 1} ELSE {0})
      [] d.pc = "data" ->
            IF Len(d.data) >= MaxData THEN {}
            ELSE IF c = "options" THEN {0, 170} ELSE {170}
      [] d.pc = "name" ->
            IF Len(d.name_buf) < MaxStr THEN StringBytes(c, "name") ELSE {0}
      [] d.pc = "comment" ->
            IF Len(d.comment_buf) < MaxStr THEN StringBytes(c, "comment") ELSE {0}
      [] d.pc = "crc16" ->
            IF Len(d.crc_buf) = 0
            THEN (IF c = "options" THEN {0, 52} ELSE {52})
            ELSE (IF c = "options" THEN {18, 255} ELSE {18})
      [] OTHER -> {}

\* the bits of the flags byte that gate no field: Text and bits 5-7
Ungated == Text + 32 + 64 + 128

\* the bytes the second source may deliver where the first delivers b: the
\* same byte, except for the flags byte, which may differ in the ungated bits
Twin(d, b) ==
    IF d.pc = "flags"
    THEN {x \in Byte : BitAnd(x, 255 - Ungated) = BitAnd(b, 255 - Ungated)}
    ELSE {b}

(***************************************************************************)
(* The actions: one per read of from_reader.  With `paired`, a second      *)
(* decoder reads a second source in step with the first.                   *)
(***************************************************************************)
\* the reader delivers b to the first decoder, which becomes d, and the twin
\* byte to the second
Deliver(d, b) ==
    /\ m' = d
    /\ \E b2 \in (IF paired THEN Twin(m, b) ELSE {b}) :
           m2' = IF paired THEN StepAny(m2, b2) ELSE m2
    /\ UNCHANGED <<cls, paired, ended>>

ReadMagic1 ==
    /\ m.pc = "magic1"
    /\ \E b \in Source(cls, m) : Deliver(DoMagic1(m, b), b)

ReadMagic2 ==
    /\ m.pc = "magic2"
    /\ \E b \in Source(cls, m) : Deliver(DoMagic2(m, b), b)

ReadMethod ==
    /\ m.pc = "method"
    /\ \E b \in Source(cls, m) : Deliver(DoMethod(m, b), b)

ReadFlags ==
    /\ m.pc = "flags"
    /\ \E b \in Source(cls, m) : Deliver(DoFlags(m, b), b)

ReadMtime ==
    /\ m.pc = "mtime"
    /\ \E b \in Source(cls, m) : Deliver(DoMtime(m, b), b)

ReadExtraFlags ==
    /\ m.pc = "extra_flags"
    /\ \E b \in Source(cls, m) : Deliver(DoExtraFlags(m, b), b)

ReadOs ==
    /\ m.pc = "os"
    /\ \E b \in Source(cls, m) : Deliver(DoOs(m, b), b)

ReadSubid1 ==
    /\ m.pc = "subid1"
    /\ \E b \in Source(cls, m) : Deliver(DoSubid1(m, b), b)

ReadSubid2 ==
    /\ m.pc = "subid2"
    /\ \E b \in Source(cls, m) : Deliver(DoSubid2(m, b), b)

ReadLength ==
    /\ m.pc = "length"
    /\ \E b \in Source(cls, m) : Deliver(DoLength(m, b), b)

ReadData ==
    /\ m.pc = "data"
    /\ \E b \in Source(cls, m) : Deliver(DoData(m, b), b)

ReadName ==
    /\ m.pc = "name"
    /\ \E b \in Source(cls, m) : Deliver(DoName(m, b), b)

ReadComment ==
    /\ m.pc = "comment"
    /\ \E b \in Source(cls, m) : Deliver(DoComment(m, b), b)

ReadCrc16 ==
    /\ m.pc = "crc16"
    /\ \E b \in Source(cls, m) : Deliver(DoCrc16(m, b), b)

\* any read fails: the source has ended, or the transport reports a fault
ReadFails ==
    /\ m.pc # "done"
    /\ m' = Fail(m)
    /\ m2' = IF paired /\ m2.pc # "done" THEN Fail(m2) ELSE m2
    /\ ended' = TRUE
    /\ UNCHANGED <<cls, paired>>

Init ==
    /\ m = Start
    /\ m2 = Start
    /\ cls \in Classes
    /\ paired = FALSE
    /\ ended = FALSE

InitPair ==
    /\ m = Start
    /\ m2 = Start
    /\ cls = "flags"
    /\ paired = TRUE
    /\ ended = FALSE

Next ==
    \/ ReadMagic1
    \/ ReadMagic2
    \/ ReadMethod
    \/ ReadFlags
    \/ ReadMtime
    \/ ReadExtraFlags
    \/ ReadOs
    \/ ReadSubid1
    \/ ReadSubid2
    \/ ReadLength
    \/ ReadData
    \/ ReadName
    \/ ReadComment
    \/ ReadCrc16
    \/ ReadFails

Spec == Init /\ [][Next]_vars

SpecPair == InitPair /\ [][Next]_vars

(***************************************************************************)
(* Vocabulary of the properties.  They are stated on the bytes the reader  *)
(* delivered (consumed) and on the outcome, with the header layout written *)
(* out here, independently of the decoder above.                           *)
(***************************************************************************)
\* bit k of byte f
Bit(f, k) == (f \div (2 ^ k)) % 2 = 1

\* the positions of the source read by the reads labelled l
Pos(d, l) == {i \in 1..Len(d.labels) : d.labels[i] = l}

First(S) == CHOOSE i \in S : \A j \in S : i <= j
Last(S) == CHOOSE i \in S : \A j \in S : j <= i

Contiguous(S) == S = {} \/ S = First(S)..Last(S)

\* the member a successful decode returned
Ok(d) == d.result = "Ok" /\ d.member # None /\ Len(d.consumed) >= 10
Mem(d) == d.member[1]

FixedOrder ==
    <<"magic1", "magic2", "method", "flags", "mtime", "mtime", "mtime",
      "mtime", "extra_flags", "os">>

ReadOrder ==
    <<"magic1", "magic2", "method", "flags", "mtime", "extra_flags", "os",
      "subid1", "subid2", "length", "data", "name", "comment", "crc16">>

Rank(l) == CHOOSE i \in 1..Len(ReadOrder) : ReadOrder[i] = l

\* the optional field a read belongs to: 1 extra, 2 name, 3 comment, 4 checksum
Group(l) ==
    CASE l \in {"subid1", "subid2", "length", "data"} -> 1
      [] l = "name" -> 2
      [] l = "comment" -> 3
      [] l = "crc16" -> 4
      [] OTHER -> 0

\* the flag bit that governs each optional field
GroupBit == <<2, 3, 4, 1>>

Enabled(f, g) == Bit(f, GroupBit[g])

\* the first enabled optional field after field g (5: none, the header ends)
NextField(f, g) ==
    IF \E h \in (g + 1)..4 : Enabled(f, h)
    THEN First({h \in (g + 1)..4 : Enabled(f, h)})
    ELSE 5

(***************************************************************************)
(* C1                                                                      *)
(***************************************************************************)
HeaderLength(d) ==
    LET f == d.consumed[4]
    IN  10
        + (IF Bit(f, 2)
           THEN 4 + (IF Len(d.consumed) >= 14
                     THEN d.consumed[13] + 256 * d.consumed[14] ELSE 0)
           ELSE 0)
        + (IF Bit(f, 3) THEN Len(d.name_buf) + 1 ELSE 0)
        + (IF Bit(f, 4) THEN Len(d.comment_buf) + 1 ELSE 0)
        + (IF Bit(f, 1) THEN 2 ELSE 0)

\* C1: whenever from_reader succeeds, the bytes consumed are exactly
\* 10 + (4 + L if Extra) + (name bytes + 1 if Name) + (comment bytes + 1 if
\* Comment) + (2 if HCrc), the last byte consumed belongs to the last enabled
\* field, and with flags = 0 exactly 10 bytes are consumed and the four
\* optional fields are absent.
C1_ConsumedIsHeaderLength ==
    m.result = "Ok" =>
        /\ Ok(m)
        /\ Len(m.consumed) = HeaderLength(m)
        /\ NextField(m.consumed[4], Group(m.labels[Len(m.labels)])) = 5
        /\ (m.consumed[4] = 0 =>
               /\ Len(m.consumed) = 10
               /\ Mem(m).extra_fields = None
               /\ Mem(m).original_file_name = None
               /\ Mem(m).comment = None
               /\ Mem(m).crc16 = None)

C1_Witness ==
    /\ Ok(m)
    /\ m.consumed[4] = 30
    /\ m.length = 2
    /\ Len(m.name_buf) = 2
    /\ Len(m.comment_buf) = 1

(***************************************************************************)
(* C2                                                                      *)
(***************************************************************************)
\* C2: in every returned Member each optional field is Some exactly when its
\* bit of the flags byte is set (extra 0x04, name 0x08, comment 0x10, crc16
\* 0x02), and no byte is ever read for a field whose bit is clear.
C2_PresenceIffFlagBit ==
    /\ \A i \in 1..Len(m.labels) :
           Group(m.labels[i]) # 0 =>
               Len(m.consumed) >= 4 /\ Enabled(m.consumed[4], Group(m.labels[i]))
    /\ m.result = "Ok" =>
           /\ Ok(m)
           /\ (Mem(m).extra_fields # None) <=> Bit(m.consumed[4], 2)
           /\ (Mem(m).original_file_name # None) <=> Bit(m.consumed[4], 3)
           /\ (Mem(m).comment # None) <=> Bit(m.consumed[4], 4)
           /\ (Mem(m).crc16 # None) <=> Bit(m.consumed[4], 1)

C2_Witness ==
    /\ Ok(m)
    /\ m.consumed[4] = 18
    /\ Mem(m).comment # None
    /\ Mem(m).crc16 # None
    /\ Mem(m).extra_fields = None
    /\ Mem(m).original_file_name = None

(***************************************************************************)
(* C3                                                                      *)
(***************************************************************************)
\* C3: a first byte other than 0x1F fails with Format(InvalidMagic1(got)) after
\* exactly 1 byte; a first byte 0x1F followed by a byte other than 0x8B fails
\* with Format(InvalidMagic2(got)) after exactly 2 bytes; got is the byte read.
C3_InvalidMagic ==
    /\ (Len(m.consumed) >= 1 /\ m.consumed[1] # 31) =>
           /\ m.result = "Format"
           /\ m.err = Some(<<"InvalidMagic1", m.consumed[1]>>)
           /\ Len(m.consumed) = 1
           /\ m.pc = "done"
    /\ (Len(m.consumed) >= 2 /\ m.consumed[1] = 31 /\ m.consumed[2] # 139) =>
           /\ m.result = "Format"
           /\ m.err = Some(<<"InvalidMagic2", m.consumed[2]>>)
           /\ Len(m.consumed) = 2
           /\ m.pc = "done"

C3_Witness ==
    /\ m.consumed = <<31, 31>>
    /\ m.result = "Format"
    /\ m.err = Some(<<"InvalidMagic2", 31>>)

(***************************************************************************)
(* C4                                                                      *)
(***************************************************************************)
\* C4: when the source ends before the header is complete (at any read, the
\* first included) from_reader returns Error::Io and no Member; Error::Io is
\* returned only then; Error::Format is returned only when the byte just read
\* is one of the first two and mismatches its magic value; a Member exists
\* only with Ok.
C4_AllOrNothing ==
    /\ ended => (m.result = "Io" /\ m.member = None /\ m.pc = "done")
    /\ m.result = "Io" => ended
    /\ m.result = "Format" =>
           /\ ~ended
           /\ m.member = None
           /\ \/ Len(m.consumed) = 1 /\ m.consumed[1] # 31
              \/ Len(m.consumed) = 2 /\ m.consumed[1] = 31 /\ m.consumed[2] # 139
    /\ m.member # None => (m.result = "Ok" /\ ~ended)
    /\ m.result \in {"none", "Ok", "Io", "Format"}
    /\ (m.result = "none") <=> (m.pc # "done")

C4_Witness ==
    /\ ended
    /\ m.result = "Io"
    /\ Len(m.consumed) = 13
    /\ m.consumed[4] = 10
    /\ Len(m.name_buf) = 1
    /\ Len(m.crc_buf) = 1

(***************************************************************************)
(* C5                                                                      *)
(***************************************************************************)
MethodOf(b) ==
    CASE b = 0 -> "Reserved0" [] b = 1 -> "Reserved1" [] b = 2 -> "Reserved2"
      [] b = 3 -> "Reserved3" [] b = 4 -> "Reserved4" [] b = 5 -> "Reserved5"
      [] b = 6 -> "Reserved6" [] b = 7 -> "Reserved7" [] b = 8 -> "Deflate"
      [] OTHER -> "Unknown"

OsOf(b) ==
    CASE b = 0 -> "Fat" [] b = 1 -> "Amiga" [] b = 2 -> "Vms" [] b = 3 -> "Unix"
      [] b = 4 -> "VmCms" [] b = 5 -> "Atari" [] b = 6 -> "Hpfs"
      [] b = 7 -> "Macintosh" [] b = 8 -> "ZSystem" [] b = 9 -> "CPM"
      [] b = 10 -> "Top20" [] b = 11 -> "Ntfs" [] b = 12 -> "QDos"
      [] b = 13 -> "AcornRiscOS"
      [] OTHER -> "Unknown"

\* C5: no method byte and no operating-system byte makes from_reader fail:
\* 0x00..0x08 and 0x00..0x0D map to their own variants, every other byte to
\* Unknown, and the next read is the same whatever the byte was.
C5_UnknownCodesDecode ==
    /\ Len(m.consumed) >= 3 =>
           /\ m.compression_method = MethodOf(m.consumed[3])
           /\ m.result # "Format"
    /\ (Len(m.consumed) = 3 /\ ~ended) => (m.pc = "flags" /\ m.result = "none")
    /\ Len(m.consumed) >= 10 => m.operating_system = OsOf(m.consumed[10])
    /\ (Len(m.consumed) = 10 /\ ~ended) =>
           IF NextField(m.consumed[4], 0) = 5
           THEN m.result = "Ok"
           ELSE /\ m.result = "none"
                /\ Group(m.pc) = NextField(m.consumed[4], 0)
    /\ m.result = "Ok" =>
           /\ Ok(m)
           /\ Mem(m).compression_method = MethodOf(m.consumed[3])
           /\ Mem(m).operating_system = OsOf(m.consumed[10])

C5_Witness ==
    /\ Ok(m)
    /\ m.consumed[3] = 9
    /\ m.consumed[10] = 32
    /\ m.consumed[4] = 30
    /\ Mem(m).compression_method = "Unknown"
    /\ Mem(m).operating_system = "Unknown"

(***************************************************************************)
(* C6                                                                      *)
(***************************************************************************)
\* the bytes 1F 8B 08 08 00 00 00 00 00 03 66 6F 6F 00
FooHeader == <<31, 139, 8, 8, 0, 0, 0, 0, 0, 3, 102, 111, 111, 0>>

\* a zero-terminated field read by the reads labelled l, whose stored value is
\* v: the reads are adjacent, only the last byte read is zero, and once the
\* field is stored its value is the text of the bytes before that zero
Terminated(d, l, v) ==
    LET S == Pos(d, l)
        raw == SubSeq(d.consumed, First(S), Last(S) - 1)
    IN  /\ Contiguous(S)
        /\ \A i \in S : d.consumed[i] = 0 => i = Last(S)
        /\ v # None =>
               /\ S # {}
               /\ d.consumed[Last(S)] = 0
               /\ v = Some(FromUtf8Lossy(raw))
               /\ \A k \in 1..Len(v[1]) : v[1][k] # 0
               /\ Len(v[1]) <= Len(raw)
               /\ (\A k \in 1..Len(raw) : raw[k] < 128) => v[1] = raw
        /\ (S # {} /\ d.consumed[Last(S)] = 0) => v # None

\* C6: with the Name (Comment) flag set the reads of that field stop with the
\* first zero byte, which is consumed; the stored value is the text of exactly
\* the bytes before it, in order, never holds the terminator, and is the empty
\* string (not None) when the first byte is zero.  The 14 bytes of FooHeader
\* decode to Deflate with the name "foo" and no other optional field.
C6_ZeroTerminatedStrings ==
    /\ Terminated(m, "name", m.original_file_name)
    /\ Terminated(m, "comment", m.comment)
    /\ m.result = "Ok" =>
           /\ Ok(m)
           /\ Mem(m).original_file_name = m.original_file_name
           /\ Mem(m).comment = m.comment
    /\ m.consumed = FooHeader =>
           /\ Ok(m)
           /\ Mem(m).compression_method = "Deflate"
           /\ Mem(m).original_file_name = Some(<<102, 111, 111>>)
           /\ Mem(m).extra_fields = None
           /\ Mem(m).comment = None
           /\ Mem(m).crc16 = None

C6_Witness ==
    /\ m.consumed = FooHeader
    /\ Ok(m)
    /\ Mem(m).original_file_name = Some(<<102, 111, 111>>)

(***************************************************************************)
(* C7                                                                      *)
(***************************************************************************)
\* C7: a returned extra field has exactly `length` data bytes, length being
\* the two bytes after the sub-ids, and they are the source bytes that follow
\* the length, in order (none when the length is 0); when the source ends
\* before that many were read, the result is Error::Io and no Member.
C7_ExtraDataHasLength ==
    /\ m.extra_fields # None =>
           /\ Len(m.consumed) >= 14
           /\ Bit(m.consumed[4], 2)
           /\ LET x == m.extra_fields[1]
                  L == m.consumed[13] + 256 * m.consumed[14]
              IN  /\ x.length = L
                  /\ Len(x.data) = L
                  /\ Len(m.consumed) >= 14 + L
                  /\ x.data = SubSeq(m.consumed, 15, 14 + L)
                  /\ Pos(m, "data") = 15..(14 + L)
    /\ (Len(m.consumed) >= 14 /\ Bit(m.consumed[4], 2)) =>
           LET L == m.consumed[13] + 256 * m.consumed[14]
           IN  /\ Len(m.consumed) >= 14 + L => m.extra_fields # None
               /\ (ended /\ Len(m.consumed) < 14 + L) =>
                      (m.result = "Io" /\ m.member = None /\ m.extra_fields = None)
    /\ m.result = "Ok" =>
           /\ Ok(m)
           /\ Mem(m).extra_fields = m.extra_fields

C7_Witness ==
    /\ Ok(m)
    /\ Mem(m).extra_fields # None
    /\ Mem(m).extra_fields[1].length = 2
    /\ Mem(m).extra_fields[1].data = <<170, 0>>

(***************************************************************************)
(* C8                                                                      *)
(***************************************************************************)
\* C8: the reads go through the source one position at a time in the order
\* magic1, magic2, method, flags, mtime x4, extra_flags, os, then the enabled
\* optional fields in the order extra, name, comment, checksum, none skipped;
\* every field holds the bytes of its own positions, the checksum the last two.
C8_FixedReadOrder ==
    LET n == Len(m.consumed)
        lab == m.labels
    IN  /\ Len(lab) = n
        /\ \A i \in 1..n : i <= 10 => lab[i] = FixedOrder[i]
        /\ \A i \in 1..(n - 1) : Rank(lab[i]) <= Rank(lab[i + 1])
        /\ \A i \in 10..(n - 1) :
               Group(lab[i]) # Group(lab[i + 1]) =>
                   Group(lab[i + 1]) = NextField(m.consumed[4], Group(lab[i]))
        /\ \A i \in 1..(n - 1) :
               /\ lab[i] = "subid1" => lab[i + 1] = "subid2"
               /\ lab[i] = "subid2" => lab[i + 1] = "length"
        /\ Cardinality(Pos(m, "subid1")) <= 1
        /\ Cardinality(Pos(m, "subid2")) <= 1
        /\ Cardinality(Pos(m, "length")) <= 2
        /\ Cardinality(Pos(m, "crc16")) <= 2
        /\ n >= 1 => m.magic1 = m.consumed[1]
        /\ n >= 2 => m.magic2 = m.consumed[2]
        /\ n >= 4 => m.flags = m.consumed[4]
        /\ n >= 5 => m.mtime_buf = SubSeq(m.consumed, 5, IF n < 8 THEN n ELSE 8)
        /\ n >= 9 => m.extra_flags = m.consumed[9]
        /\ \A i \in 1..n :
               /\ lab[i] = "subid1" => m.subid1 = m.consumed[i]
               /\ lab[i] = "subid2" => m.subid2 = m.consumed[i]
        /\ Contiguous(Pos(m, "length")) /\ Contiguous(Pos(m, "data"))
        /\ Contiguous(Pos(m, "name")) /\ Contiguous(Pos(m, "comment"))
        /\ Contiguous(Pos(m, "crc16"))
        /\ Pos(m, "length") # {} =>
               m.length_buf = SubSeq(m.consumed, First(Pos(m, "length")),
                                     Last(Pos(m, "length")))
        /\ Pos(m, "data") # {} =>
               m.data = SubSeq(m.consumed, First(Pos(m, "data")),
                               Last(Pos(m, "data")))
        /\ Pos(m, "name") # {} =>
               m.name_buf = SelectSeq(SubSeq(m.consumed, First(Pos(m, "name")),
                                             Last(Pos(m, "name"))),
                                      LAMBDA x : x # 0)
        /\ Pos(m, "comment") # {} =>
               m.comment_buf = SelectSeq(SubSeq(m.consumed, First(Pos(m, "comment")),
                                                Last(Pos(m, "comment"))),
                                         LAMBDA x : x # 0)
        /\ Pos(m, "crc16") # {} =>
               m.crc_buf = SubSeq(m.consumed, First(Pos(m, "crc16")),
                                  Last(Pos(m, "crc16")))
        /\ m.result = "Ok" =>
               /\ n >= 10
               /\ NextField(m.consumed[4], Group(lab[n])) = 5
               /\ Bit(m.consumed[4], 1) =>
                      /\ Pos(m, "crc16") = {n - 1, n}
                      /\ m.crc16 = Some(m.consumed[n - 1] + 256 * m.consumed[n])

C8_Witness ==
    /\ Ok(m)
    /\ m.consumed[4] = 30
    /\ m.data = <<170>>
    /\ m.name_buf = <<102, 195>>
    /\ m.comment_buf = <<169>>
    /\ m.crc16 = Some(52 + 256 * 255)
    /\ Len(m.consumed) = 22

(***************************************************************************)
(* C9                                                                      *)
(***************************************************************************)
\* C9: modification_time is b4 + 256 b5 + 65536 b6 + 16777216 b7 (as limbs:
\* lo = b4 + 256 b5, hi = b6 + 256 b7, each in 0..65535, nothing rejected),
\* the extra length and crc16 are lo + 256 hi of their two bytes (0..65535),
\* and extra_flags is the byte at offset 8 unchanged.
C9_LittleEndian ==
    LET n == Len(m.consumed)
    IN  /\ n >= 8 =>
               /\ m.modification_time.lo = m.consumed[5] + 256 * m.consumed[6]
               /\ m.modification_time.hi = m.consumed[7] + 256 * m.consumed[8]
               /\ m.modification_time.lo \in 0..65535
               /\ m.modification_time.hi \in 0..65535
               /\ m.result # "Format"
        /\ (n = 8 /\ ~ended) => m.pc = "extra_flags"
        /\ n >= 9 => m.extra_flags = m.consumed[9]
        /\ (n >= 14 /\ Bit(m.consumed[4], 2)) =>
               /\ m.length = m.consumed[13] + 256 * m.consumed[14]
               /\ m.length \in 0..65535
        /\ m.result = "Ok" =>
               /\ Ok(m)
               /\ Mem(m).modification_time = m.modification_time
               /\ Mem(m).extra_flags = m.consumed[9]
               /\ Bit(m.consumed[4], 1) =>
                      /\ Mem(m).crc16 # None
                      /\ Mem(m).crc16[1] = m.consumed[n - 1] + 256 * m.consumed[n]
                      /\ Mem(m).crc16[1] \in 0..65535
               /\ Bit(m.consumed[4], 2) =>
                      /\ Mem(m).extra_fields # None
                      /\ Mem(m).extra_fields[1].length = m.length

C9_Witness ==
    /\ Ok(m)
    /\ SubSeq(m.consumed, 5, 8) = <<120, 86, 52, 18>>
    /\ Mem(m).modification_time = U32(4660, 22136)
    /\ Mem(m).crc16 = Some(4660)
    /\ Mem(m).extra_fields # None
    /\ Mem(m).extra_fields[1].length = 1
    /\ Mem(m).extra_flags = 4

(***************************************************************************)
(* C10                                                                     *)
(***************************************************************************)
\* a decoder's state with the ungated flag bits taken out
Gated(f) == (f \div 2) % 16

Masked(d) ==
    [d EXCEPT !.flags = IF @ < 0 THEN @ ELSE Gated(@),
              !.consumed = IF Len(@) >= 4 THEN [@ EXCEPT ![4] = Gated(@)] ELSE @,
              !.member = IF @ = None THEN None
                         ELSE Some([@[1] EXCEPT !.flags = Gated(@)])]

StoredBitForBit(d) ==
    /\ Len(d.consumed) >= 4 => d.flags = d.consumed[4]
    /\ d.result = "Ok" => (Ok(d) /\ Mem(d).flags = d.consumed[4])
    /\ d.result = "Format" => Len(d.consumed) <= 2

\* C10: every flags byte 0..255 is accepted and stored with the same 8 bits,
\* and two sources that differ only in bit 0 and bits 5-7 of the flags byte
\* give the same outcome, the same number of bytes consumed and the same value
\* of every other field, at every read.
C10_UngatedBitsIgnored ==
    /\ StoredBitForBit(m)
    /\ StoredBitForBit(m2)
    /\ (Len(m.consumed) = 4 /\ ~ended) => (m.pc = "mtime" /\ m.result = "none")
    /\ Masked(m) = Masked(m2)
    /\ Len(m.consumed) = Len(m2.consumed)
    /\ m.result = m2.result

C10_Witness ==
    /\ Ok(m)
    /\ Ok(m2)
    /\ m.consumed[4] = 30
    /\ m2.consumed[4] = 255
    /\ Mem(m2).flags = 255
    /\ Len(m.name_buf) = 2
    /\ Mem(m).original_file_name = Mem(m2).original_file_name

====
